---- MODULE Spec2Model ----
(***************************************************************************)
(* JWT issuance, refresh-token rotation and the authentication middleware  *)
(* of the backend (package jwt, package auth), over the refresh_tokens     *)
(* table. Time is counted in ticks; TicksPerSecond ticks make one second,  *)
(* so that the whole-second precision of the JWT numeric dates is visible. *)
(* With them user.Service.FindOrCreate over the users table and the id     *)
(* handling of the task handlers.                                          *)
(***************************************************************************)
EXTENDS Integers, Sequences, FiniteSets, TLC

\* ---------------------------------------------------------------- bounds
NumProcs == 2          \* goroutines serving /api/refreshToken at the same time
MaxRows == 2           \* refresh_tokens rows inserted (ids from gen_random_uuid())
MaxJwt == 1            \* jwt ids uuid.New() draws from
MaxTime == 2           \* last tick of the clock
TicksPerSecond == 2    \* clock resolution below the JWT TimePrecision
MaxLifetime == 3       \* largest Service.expiration the codec is checked with
RefreshLifetime == 1   \* Service.refreshTokenExpiration, in ticks
NumCallers == 2        \* calls of FindOrCreate in progress at the same time
MaxUsers == 3          \* users rows inserted
Int32Bits == 4         \* width the model gives Go's int32
IntBits == 6           \* width the model gives Go's int (64 bits in the build)

\* Service.expiration of the running service, in ticks: its access tokens
\* outlive the clock of the model (the codec is checked under every lifetime
\* up to MaxLifetime).
AccessLifetime == MaxTime + TicksPerSecond

Procs == 1..NumProcs
Ids == 1..MaxRows
JwtIDs == 1..MaxJwt
Callers == 1..NumCallers

\* ------------------------------------------------------------ users table
\* The users rows the refresh tokens reference (user_id REFERENCES users(id)).
Users == {"u1", "u2"}

UserEmail(u) == IF u = "u1" THEN "a@x" ELSE "b@x"

\* The email strings Service.New may be handed: those of the users rows and
\* one that holds a byte that is not valid UTF-8.
Emails == {"a@x", "b@x", "<ff>@x"}

\* jwt.User{ID, Email}; the zero value User{} is returned with every error.
NoUser == [ID |-> "nil", Email |-> ""]

secret == "default_secret"

\* ------------------------------------------------- refresh_tokens queries
\* A table is a function from the ids of its rows to the rows.
ZeroRow == [user_id |-> "nil", is_available |-> FALSE, expiration_date |-> 0]

\* SELECT * FROM refresh_tokens WHERE id = $1  (:one => ErrNoRows when absent)
GetByID(tbl, id) ==
    IF id \in DOMAIN tbl
    THEN [err |-> "nil", row |-> tbl[id]]
    ELSE [err |-> "ErrNoRows", row |-> ZeroRow]

\* SELECT u.* FROM refresh_tokens r JOIN users u ON r.user_id = u.id WHERE r.id = $1
GetUserByRefreshToken(tbl, id) ==
    IF id \in DOMAIN tbl
    THEN [err |-> "nil", user |-> [ID |-> tbl[id].user_id, Email |-> UserEmail(tbl[id].user_id)]]
    ELSE [err |-> "ErrNoRows", user |-> NoUser]

\* The insert that also stamps the new expiration date on the user's other rows.
CreateRestamping(tbl, id, userID, expirationDate) ==
    [i \in DOMAIN tbl \cup {id} |->
        IF i = id
        THEN [user_id |-> userID, is_available |-> TRUE, expiration_date |-> expirationDate]
        ELSE IF tbl[i].user_id = userID
             THEN [tbl[i] EXCEPT !.expiration_date = expirationDate]
             ELSE tbl[i]]

\* INSERT INTO refresh_tokens (user_id, expiration_date) VALUES ($1, $2) RETURNING *
\* id is the value of gen_random_uuid(), is_available takes its DEFAULT TRUE.
Create(tbl, id, userID, expirationDate) ==
    [i \in DOMAIN tbl \cup {id} |->
        IF i = id
        THEN [user_id |-> userID, is_available |-> TRUE, expiration_date |-> expirationDate]
        ELSE tbl[i]]

\* The update written without its WHERE id = $1.
InactivateRowsAll(tbl, id) ==
    [i \in DOMAIN tbl |-> [tbl[i] EXCEPT !.is_available = FALSE]]

\* The update written as SET is_available = NOT is_available.
InactivateRowsToggle(tbl, id) ==
    [i \in DOMAIN tbl |-> IF i = id THEN [tbl[i] EXCEPT !.is_available = ~@] ELSE tbl[i]]

\* UPDATE refresh_tokens SET is_available = FALSE WHERE id = $1 RETURNING *
InactivateRows(tbl, id) ==
    [i \in DOMAIN tbl |-> IF i = id THEN [tbl[i] EXCEPT !.is_available = FALSE] ELSE tbl[i]]

\* Inactivate answering with the row and no error, the write left out.
InactivateNoWrite(tbl, id) == [err |-> "nil", tbl |-> tbl]

\* The same query as the generated (:one) method answers it.
Inactivate(tbl, id) ==
    IF id \in DOMAIN tbl
    THEN [err |-> "nil", tbl |-> InactivateRows(tbl, id)]
    ELSE [err |-> "ErrNoRows", tbl |-> tbl]

\* The bulk update written as SET is_available = NOT is_available.
InactivateByUserIDToggle(tbl, userID) ==
    [i \in DOMAIN tbl |->
        IF tbl[i].user_id = userID THEN [tbl[i] EXCEPT !.is_available = ~@] ELSE tbl[i]]

\* UPDATE refresh_tokens SET is_available = FALSE WHERE user_id = $1 RETURNING *
InactivateByUserID(tbl, userID) ==
    [i \in DOMAIN tbl |->
        IF tbl[i].user_id = userID THEN [tbl[i] EXCEPT !.is_available = FALSE] ELSE tbl[i]]

\* The sweep written with expiration_date <= now().
DeleteExpiredInclusive(tbl, t) ==
    [i \in {j \in DOMAIN tbl : ~(tbl[j].expiration_date <= t \/ tbl[j].is_available = FALSE)}
        |-> tbl[i]]

\* DELETE FROM refresh_tokens WHERE expiration_date < now() OR is_available = FALSE
DeleteExpired(tbl, t) ==
    [i \in {j \in DOMAIN tbl : ~(tbl[j].expiration_date < t \/ tbl[j].is_available = FALSE)}
        |-> tbl[i]]

\* ------------------------------------------------------------ token codec
\* A string is modelled by its shape: the number of leading "Bearer "
\* prefixes, and what follows them: nothing, text that is no JWT, or the
\* three-segment encoding of a claims payload and its HMAC.
Issuer == "Backend-Training"

Subject == "Backend-Training Token"

ZeroClaims ==
    [UserID |-> "nil", Email |-> "", Issuer |-> "", Subject |-> "",
     ExpiresAt |-> 0, NotBefore |-> 0, IssuedAt |-> 0, ID |-> 0]

NoMac == [key |-> "", payload |-> ZeroClaims]

EmptyString == [bearer |-> 0, kind |-> "empty", claims |-> ZeroClaims, mac |-> NoMac]

Garbage == [bearer |-> 0, kind |-> "garbage", claims |-> ZeroClaims, mac |-> NoMac]

\* "Bearer " + s
WithBearer(s) == [s EXCEPT !.bearer = @ + 1]

\* The token string handed to the parser as it came.
TrimPrefixSkipped(s) == s

\* strings.TrimPrefix(tokenString, "Bearer "): removes one leading prefix.
TrimPrefix(s) == IF s.bearer > 0 THEN [s EXCEPT !.bearer = @ - 1] ELSE s

\* encoding/json writes a string coerced to valid UTF-8: bytes that are not
\* valid UTF-8 come back as U+FFFD. "<ff>@x" stands for an email holding such
\* a byte, "<fffd>@x" for its coerced form.
JSONString(str) == IF str = "<ff>@x" THEN "<fffd>@x" ELSE str

\* jwt.NewNumericDate: t.Truncate(TimePrecision), TimePrecision = time.Second.
NewNumericDate(t) == t - (t % TicksPerSecond)

\* HMAC-SHA256 of the payload under the key, taken as collision free.
HMAC(key, payload) == [key |-> key, payload |-> payload]

\* token.SignedString(key): the payload is the JSON encoding of the claims.
SignedString(c, key) ==
    LET payload == [c EXCEPT !.Email = JSONString(c.Email)]
    IN  [bearer |-> 0, kind |-> "jwt", claims |-> payload, mac |-> HMAC(key, payload)]

\* Service.New at clock t with access lifetime exp and jwtID = uuid.New().
New(t, exp, userID, email, jwtID) ==
    SignedString(
        [UserID |-> userID, Email |-> email, Issuer |-> Issuer, Subject |-> Subject,
         ExpiresAt |-> NewNumericDate(t + exp),
         NotBefore |-> NewNumericDate(t),
         IssuedAt |-> NewNumericDate(t),
         ID |-> jwtID],
        secret)

\* A token still taken at the instant of its exp claim.
NotExpiredInclusive(c, t) == t <= c.ExpiresAt

\* A token refused at the instant of its nbf claim.
NotBeforeStrict(c, t) == c.NotBefore < t

\* The claims validator of jwt.ParseWithClaims: exp must be after the clock,
\* nbf must not be after it (issued-at is not verified by default).
NotExpired(c, t) == t < c.ExpiresAt

NotBeforeOK(c, t) == ~(t < c.NotBefore)

\* jwt.ParseWithClaims(tokenString, &claims{}, keyFunc) at clock t: the error
\* class it reports ("nil" when the token is valid).
ParseWithClaims(s, t) ==
    IF s.kind # "jwt" \/ s.bearer > 0 THEN "ErrTokenMalformed"
    ELSE IF s.mac # HMAC(secret, s.claims) THEN "ErrSignatureInvalid"
    ELSE IF ~NotExpired(s.claims, t) THEN "ErrTokenExpired"
    ELSE IF ~NotBeforeOK(s.claims, t) THEN "ErrTokenNotValidYet"
    ELSE "nil"

\* Service.Parse at clock t.
Parse(tokenString, t) ==
    LET s == TrimPrefix(tokenString)
        err == ParseWithClaims(s, t)
    IN  IF err # "nil"
        THEN [err |-> err, user |-> NoUser]
        ELSE [err |-> "nil", user |-> [ID |-> s.claims.UserID, Email |-> s.claims.Email]]

\* ---------------------------------------------- users queries (package user)
\* The emails the identity provider reports at login.
LoginEmails == {UserEmail(u) : u \in Users}

\* SELECT EXISTS (SELECT 1 FROM users WHERE email = $1)
ExistsByEmail(tbl, email) == \E i \in DOMAIN tbl : tbl[i].email = email

\* SELECT * FROM users WHERE email = $1, before :one takes a row of it: the
\* ids of the rows the statement matches. Without ORDER BY any of them may
\* come first.
GetByEmail(tbl, email) == {i \in DOMAIN tbl : tbl[i].email = email}

\* INSERT INTO users (email, username, avatar_url) VALUES ($1, $2, $3)
\* RETURNING *: the new row takes the next id.
CreateUser(tbl, email) == Append(tbl, [email |-> email])

\* --------------------------------------------- task ids (package task)
\* Go's int and int32 as two's complement ranges of IntBits and Int32Bits bits.
MinInt == -(2 ^ (IntBits - 1))
MaxInt == 2 ^ (IntBits - 1) - 1
MinInt32 == -(2 ^ (Int32Bits - 1))
MaxInt32 == 2 ^ (Int32Bits - 1) - 1

\* r.PathValue("id"): empty, text that is not a decimal integer, or the
\* decimal text of an integer, from one below to one above the range of int.
TaskPaths ==
    {[kind |-> "empty", n |-> 0], [kind |-> "text", n |-> 0]}
        \cup {[kind |-> "int", n |-> n] : n \in (MinInt - 1)..(MaxInt + 1)}

\* strconv.Atoi: ErrSyntax on text that is not an integer, ErrRange on an
\* integer outside int.
Atoi(path) ==
    IF path.kind # "int" THEN [err |-> "ErrSyntax", n |-> 0]
    ELSE IF path.n < MinInt THEN [err |-> "ErrRange", n |-> MinInt]
    ELSE IF path.n > MaxInt THEN [err |-> "ErrRange", n |-> MaxInt]
    ELSE [err |-> "nil", n |-> path.n]

\* The conversion int32(id) of an int: the low Int32Bits bits, as a signed number.
Int32(n) == ((n - MinInt32 + 2 ^ IntBits) % (2 ^ Int32Bits)) + MinInt32

\* The head the three handlers share: the id they hand to the store, or
\* the 400 they answer.
TaskID(path) ==
    IF path.kind = "empty"
    THEN [status |-> 400, body |-> "Task ID is required", id |-> 0]
    ELSE IF Atoi(path).err # "nil"
    THEN [status |-> 400, body |-> "Invalid task ID", id |-> 0]
    ELSE [status |-> 0, body |-> "", id |-> Int32(Atoi(path).n)]

\* ------------------------------------------------------------------ state
VARIABLES
    now,             \* the clock (time.Now() and the store's now()), in ticks
    expiration,      \* Service.expiration, fixed by NewService
    refresh_tokens,  \* the refresh_tokens table
    nextID,          \* ids handed out so far by gen_random_uuid()
    issued,          \* the token strings direct calls of New returned
    mintedFor,       \* history: jwt id -> the arguments and clock of a direct call of New
    proc,            \* the /api/refreshToken requests in progress
    gate,            \* the last request through the middleware and its answer
    revoked,         \* history: ids owned by u when a bulk inactivation of u completed
    users,           \* the users table: row i has id i
    emailUnique,     \* whether the users table has a unique constraint on email
    foc,             \* the calls of FindOrCreate in progress
    found,           \* history: the (email, user id) pairs FindOrCreate returned
    task             \* the last request on /api/task/{id} and its answer

vars == <<now, expiration, refresh_tokens, nextID, issued, mintedFor, proc, gate,
          revoked, users, emailUnique, foc, found, task>>

\* The state of the refresh tokens and the middleware, and the rest.
authVars == <<now, expiration, refresh_tokens, nextID, issued, mintedFor, proc,
              gate, revoked>>

userVars == <<users, emailUnique, foc, found>>

\* A caller not in FindOrCreate.
NoCall == [pc |-> "idle", email |-> "", user |-> 0, err |-> ""]

\* No request on /api/task/{id} yet.
NoTask == [handler |-> "", path |-> [kind |-> "empty", n |-> 0], status |-> 0,
           body |-> "", storeCalls |-> 0, storeID |-> 0]

\* The users side and the task side before any login or task request.
RestInit ==
    /\ users = << >>
    /\ emailUnique = FALSE
    /\ foc = [c \in Callers |-> NoCall]
    /\ found = {}
    /\ task = NoTask

\* r.PathValue("refreshToken"): empty, text that uuid.Parse rejects, or the
\* text of a uuid.
PathValues ==
    {[text |-> "empty", id |-> 0], [text |-> "not-a-uuid", id |-> 0]}
        \cup {[text |-> "uuid", id |-> i] : i \in Ids}

NoPath == [text |-> "", id |-> 0]

\* A goroutine of Handler.RefreshToken: where it stands, the request's path
\* value, the locals refreshToken and jwtUser of ValidateRefreshToken, the
\* errors ValidateRefreshToken (verr) and CreateRefreshToken (cerr) returned,
\* the locals jwtToken and newRefreshToken, and the response.
IdleProc ==
    [pc |-> "idle", path |-> NoPath, refreshToken |-> ZeroRow, jwtUser |-> NoUser,
     verr |-> "", cerr |-> "", jwtToken |-> EmptyString, newRefreshToken |-> 0,
     status |-> 0, body |-> ""]

NoGate ==
    [Authorization |-> EmptyString, route |-> "", at |-> 0, perr |-> "",
     jwtUser |-> NoUser, status |-> 0, body |-> "", nextCalls |-> 0, user |-> "nil",
     lerr |-> "", touched |-> {}]

NoMint == [ID |-> "nil", Email |-> "", at |-> 0]

\* The record of a call New(userID, email) at clock t that drew jwtID.
Minted(jwtID, userID, email, t) ==
    [j \in DOMAIN mintedFor \cup {jwtID} |->
        IF j = jwtID THEN [ID |-> userID, Email |-> email, at |-> t] ELSE mintedFor[j]]

Init ==
    /\ now = 0
    /\ expiration = AccessLifetime
    /\ refresh_tokens = [i \in {} |-> ZeroRow]
    /\ nextID = 0
    /\ issued = {}
    /\ mintedFor = [j \in {} |-> NoMint]
    /\ proc = [p \in Procs |-> IdleProc]
    /\ gate = NoGate
    /\ revoked = {}
    /\ RestInit

\* A request is taken by the first idle goroutine (they are interchangeable).
FirstIdle(p) == \A q \in Procs : q < p => proc[q].pc # "idle"

\* The clock advances.
Tick ==
    /\ now < MaxTime
    /\ now' = now + 1
    /\ UNCHANGED <<userVars, task, expiration, refresh_tokens, nextID, issued, mintedFor,
                   proc, gate, revoked>>

\* -------------------------------------------------- GET /api/refreshToken
\* uuid.Parse(path) succeeds.
UUIDParse(path) == path.text = "uuid"

\* Before with its operands exchanged.
BeforeSwapped(a, b) == b < a

\* time.Time.Before
Before(a, b) == a < b

\* Outcomes of a store call: it answers, it fails before taking effect, or
\* (a write) it takes effect and the answer is lost on the way back.
ReadOutcomes == {"nil", "failed"}

WriteOutcomes == {"nil", "failed", "lost"}

\* Service.ValidateRefreshToken, from the answer of GetByID to the first
\* return: the error it returns at clock t, "nil" when it goes on.
CheckRefreshToken(res, t) ==
    IF res.err # "nil" THEN res.err
    ELSE IF Before(res.row.expiration_date, t) THEN "ErrInvalidRefreshToken"
    ELSE IF ~res.row.is_available THEN "ErrInvalidRefreshToken"
    ELSE "nil"

\* Every error of ValidateRefreshToken answered as an internal failure.
ValidateErrStatusAlways500(err) == 500

\* Handler.RefreshToken: the status for an error of ValidateRefreshToken.
ValidateErrStatus(err) == IF err = "ErrInvalidRefreshToken" THEN 400 ELSE 500

ValidateErrBody(err) ==
    IF err = "ErrInvalidRefreshToken"
    THEN "Invalid refresh token"
    ELSE "Failed to get user by refresh token"

\* The handler has answered: its locals are gone, the request and the
\* response stay until the goroutine is reused.
Answered(p, verr, cerr, status, body) ==
    [IdleProc EXCEPT !.pc = "done", !.path = proc[p].path, !.verr = verr, !.cerr = cerr,
                     !.status = status, !.body = body]

\* The request ends with an error of ValidateRefreshToken.
FailValidate(p, err) ==
    [proc EXCEPT ![p] = Answered(p, err, "", ValidateErrStatus(err), ValidateErrBody(err))]

\* Handler.RefreshToken from the path value to the answer of queries.GetByID,
\* the first store call of ValidateRefreshToken, and the checks of the row.
RefreshToken(p, path, outcome) ==
    /\ proc[p].pc = "idle"
    /\ FirstIdle(p)
    /\ ~UUIDParse(path) => outcome = "nil"
    /\ LET q == [proc EXCEPT ![p].path = path]
           res == IF outcome = "nil"
                  THEN GetByID(refresh_tokens, path.id)
                  ELSE [err |-> "ErrStore", row |-> ZeroRow]
           err == CheckRefreshToken(res, now)
       IN  proc' =
            IF path.text = "empty"
            THEN [q EXCEPT ![p].pc = "done", ![p].status = 400,
                           ![p].body = "Refresh token is required"]
            ELSE IF ~UUIDParse(path)
            THEN [q EXCEPT ![p].pc = "done", ![p].status = 400,
                           ![p].body = "Invalid refresh token format"]
            ELSE IF err # "nil"
            THEN [q EXCEPT ![p] = [Answered(p, err, "", ValidateErrStatus(err),
                                            ValidateErrBody(err)) EXCEPT !.path = path]]
            ELSE [q EXCEPT ![p].pc = "GetUserByRefreshToken", ![p].refreshToken = res.row]
    /\ UNCHANGED <<userVars, task, now, expiration, refresh_tokens, nextID, issued, mintedFor,
                   gate, revoked>>

\* ValidateRefreshToken: queries.GetUserByRefreshToken.
ValidateGetUser(p, outcome) ==
    /\ proc[p].pc = "GetUserByRefreshToken"
    /\ LET res == IF outcome = "nil"
                  THEN GetUserByRefreshToken(refresh_tokens, proc[p].path.id)
                  ELSE [err |-> "ErrStore", user |-> NoUser]
       IN  proc' =
            IF res.err # "nil"
            THEN FailValidate(p, res.err)
            ELSE [proc EXCEPT ![p].pc = "Inactivate", ![p].jwtUser = res.user]
    /\ UNCHANGED <<userVars, task, now, expiration, refresh_tokens, nextID, issued, mintedFor,
                   gate, revoked>>

\* ValidateRefreshToken: queries.Inactivate and the return of the user; then
\* Handler.RefreshToken: jwtIssuer.New (SignedString cannot fail for HS256 with
\* a []byte key, so the handler's error branch after New is never taken).
ValidateInactivate(p, outcome, jwtID) ==
    /\ proc[p].pc = "Inactivate"
    /\ LET res == IF outcome = "failed"
                  THEN [err |-> "ErrStore", tbl |-> refresh_tokens]
                  ELSE Inactivate(refresh_tokens, proc[p].path.id)
           err == IF outcome = "lost" THEN "ErrStore" ELSE res.err
           tok == New(now, expiration, proc[p].jwtUser.ID, proc[p].jwtUser.Email, jwtID)
       IN  /\ refresh_tokens' = res.tbl
           /\ proc' =
                IF err # "nil"
                THEN FailValidate(p, err)
                ELSE [proc EXCEPT ![p].pc = "CreateRefreshToken", ![p].verr = "nil",
                                  ![p].jwtToken = tok]
    /\ UNCHANGED <<userVars, task, now, expiration, nextID, issued, mintedFor, gate, revoked>>

\* Handler.RefreshToken: jwtIssuer.CreateRefreshToken and the response.
RefreshCreate(p, outcome) ==
    /\ proc[p].pc = "CreateRefreshToken"
    /\ nextID < MaxRows
    /\ LET id == nextID + 1
           expirationDate == now + RefreshLifetime
       IN  /\ nextID' = IF outcome = "failed" THEN nextID ELSE id
           /\ refresh_tokens' =
                IF outcome = "failed"
                THEN refresh_tokens
                ELSE Create(refresh_tokens, id, proc[p].jwtUser.ID, expirationDate)
           /\ proc' =
                IF outcome # "nil"
                THEN [proc EXCEPT ![p] =
                        Answered(p, "nil", "ErrStore", 500,
                                 "Failed to generate new refresh token")]
                ELSE [proc EXCEPT ![p] =
                        [Answered(p, "nil", "nil", 200, "json") EXCEPT
                            !.jwtToken = proc[p].jwtToken, !.newRefreshToken = id]]
    /\ UNCHANGED <<userVars, task, now, expiration, issued, mintedFor, gate, revoked>>

\* The response has been written; the goroutine serves the next request.
RefreshDone(p) ==
    /\ proc[p].pc = "done"
    /\ proc' = [proc EXCEPT ![p] = IdleProc]
    /\ UNCHANGED <<userVars, task, now, expiration, refresh_tokens, nextID, issued, mintedFor,
                   gate, revoked>>

\* ------------------------------------------- GET /api/oauth/google/callback
\* auth.Handler.Callback once FindOrCreate has returned the user: jwtService.New,
\* then jwtService.CreateRefreshToken, then the redirect carrying both tokens.
\* When CreateRefreshToken fails the redirect carries the error and no
\* token: the login did not happen, and the client does without the row a lost
\* answer left behind exactly as it may do without one it was given. So only the
\* login that succeeds is a step.
Callback(u) ==
    /\ nextID < MaxRows
    /\ nextID' = nextID + 1
    /\ refresh_tokens' = Create(refresh_tokens, nextID + 1, u, now + RefreshLifetime)
    /\ UNCHANGED <<userVars, task, now, expiration, issued, mintedFor, proc, gate, revoked>>

\* ------------------------------------------------------------- middleware
OtherUser(u) == IF u = "u1" THEN "u2" ELSE "u1"

\* The payload rewritten to name another user, the signature left as it was.
Tampered(tok) == [tok EXCEPT !.claims.UserID = OtherUser(@)]

\* The same payload signed with a key that is not the secret.
WrongKey(tok) == [tok EXCEPT !.mac.key = "another_secret"]

\* A token signed with the secret by another party, not valid before
\* second 1 and expiring after the last tick.
Foreign ==
    SignedString(
        [UserID |-> "u2", Email |-> UserEmail("u2"), Issuer |-> Issuer, Subject |-> Subject,
         ExpiresAt |-> NewNumericDate(MaxTime + TicksPerSecond),
         NotBefore |-> TicksPerSecond, IssuedAt |-> 0, ID |-> 0],
        secret)

\* The Authorization header values requests carry.
Headers ==
    {EmptyString, Garbage, WithBearer(Garbage), Foreign}
        \cup issued
        \cup {WithBearer(tok) : tok \in issued}
        \cup {WithBearer(WithBearer(tok)) : tok \in issued}
        \cup {Tampered(tok) : tok \in issued}
        \cup {WrongKey(tok) : tok \in issued}

Routes == {"logout", "task"}

\* The email stored in place of the user id.
ContextUserEmail(jwtUser) == jwtUser.Email

\* The user id HandlerFunc stores under UserContextKey.
ContextUser(jwtUser) == jwtUser.ID

\* HandlerFunc that rejects a missing header only, and calls next whatever
\* Parse returned.
HandlerFuncIgnoringParseError(token, t) ==
    IF token = EmptyString
    THEN [perr |-> "", jwtUser |-> NoUser, status |-> 401, body |-> "Unauthorized",
          nextCalls |-> 0, user |-> "nil"]
    ELSE LET r == Parse(token, t)
         IN  [perr |-> r.err, jwtUser |-> r.user, status |-> 0, body |-> "",
              nextCalls |-> 1, user |-> r.user.ID]

\* HandlerFunc that also looks the user up in refresh_tokens, and rejects the
\* token of a user who has no available refresh token.
HandlerFuncCheckingRows(token, t) ==
    LET r == Parse(token, t)
        live == \E i \in DOMAIN refresh_tokens :
                    refresh_tokens[i].user_id = r.user.ID /\ refresh_tokens[i].is_available
    IN  IF token = EmptyString \/ r.err # "nil" \/ ~live
        THEN [perr |-> IF token = EmptyString THEN "" ELSE r.err, jwtUser |-> r.user,
              status |-> 401, body |-> "Unauthorized", nextCalls |-> 0, user |-> "nil"]
        ELSE [perr |-> "nil", jwtUser |-> r.user, status |-> 0, body |-> "",
              nextCalls |-> 1, user |-> r.user.ID]

\* Middleware.HandlerFunc up to next.ServeHTTP: the answer when it rejects,
\* the context value and the call of next when it accepts.
HandlerFunc(token, t) ==
    IF token = EmptyString
    THEN [perr |-> "", jwtUser |-> NoUser, status |-> 401, body |-> "Unauthorized",
          nextCalls |-> 0, user |-> "nil"]
    ELSE LET r == Parse(token, t)
         IN  IF r.err # "nil"
             THEN [perr |-> r.err, jwtUser |-> r.user, status |-> 401,
                   body |-> "Unauthorized", nextCalls |-> 0, user |-> "nil"]
             ELSE [perr |-> "nil", jwtUser |-> r.user, status |-> 0, body |-> "",
                   nextCalls |-> 1, user |-> ContextUser(r.user)]

\* Logout answering 204 whatever InactivateRefreshTokenByUserID returned.
LogoutStatusAlways204(err) == 204

\* auth.Handler.Logout: the status for the error of InactivateRefreshTokenByUserID.
LogoutStatus(err) == IF err # "nil" THEN 500 ELSE 204

\* auth.Handler.Logout: 401 when the context holds no user id, which ends the
\* handler before the store call; else the status after the store call.
LogoutHandlerStatus(ctxUser, err) == IF ctxUser = "nil" THEN 401 ELSE LogoutStatus(err)

\* The answer of a request on a protected route: that of the middleware when
\* it rejects, else that of the wrapped handler (200 stands for the answers of
\* the task handlers, which are not modelled). lerr is the error
\* InactivateRefreshTokenByUserID returned to auth.Handler.Logout, "" when
\* it was not called.
Answer(hdr, route, outcome, t) ==
    LET m == HandlerFunc(hdr, t)
        err == IF outcome = "nil" THEN "nil" ELSE "ErrStore"
    IN  [Authorization |-> hdr, route |-> route, at |-> t, perr |-> m.perr,
         jwtUser |-> m.jwtUser,
         status |-> IF m.nextCalls = 0 THEN m.status
                    ELSE IF route = "logout" THEN LogoutHandlerStatus(m.user, err) ELSE 200,
         body |-> IF m.nextCalls = 0 THEN m.body
                  ELSE IF route = "logout" /\ m.user = "nil" THEN "Unauthorized"
                  ELSE IF route = "logout" /\ err # "nil" THEN "Failed to logout" ELSE "",
         nextCalls |-> m.nextCalls, user |-> m.user,
         lerr |-> IF m.nextCalls > 0 /\ route = "logout" /\ m.user # "nil" THEN err ELSE "",
         touched |-> {}]

\* A request on a protected route: the middleware, then the wrapped handler;
\* on /api/logout that is auth.Handler.Logout and its one store call,
\* InactivateRefreshTokenByUserID. The other routes touch no refresh token.
Serve(hdr, route, outcome) ==
    LET m == HandlerFunc(hdr, now)
        logout == m.nextCalls > 0 /\ route = "logout" /\ m.user # "nil"
    IN  /\ (~logout => outcome = "nil")
        /\ refresh_tokens' =
            IF logout /\ outcome # "failed"
            THEN InactivateByUserID(refresh_tokens, m.user)
            ELSE refresh_tokens
        /\ revoked' =
            IF logout /\ outcome = "nil"
            THEN revoked \cup {i \in DOMAIN refresh_tokens : refresh_tokens[i].user_id = m.user}
            ELSE revoked
        /\ UNCHANGED <<userVars, task, now, expiration, nextID, issued, mintedFor, proc>>

\* The request, with its answer kept for inspection, and with it the ids of
\* the refresh_tokens rows the request changed.
Request(hdr, route, outcome) ==
    /\ Serve(hdr, route, outcome)
    /\ gate' = [Answer(hdr, route, outcome, now) EXCEPT
                    !.touched = {i \in DOMAIN refresh_tokens :
                                    refresh_tokens'[i] # refresh_tokens[i]}]

\* GET /api/logout among the refresh requests, its answer not kept: the
\* request of user u carrying an access token the service minted for u, here
\* at the start of the clock (under AccessLifetime every token it minted is
\* still accepted). Before u ever logged in the request finds no row of u and
\* changes nothing.
Logout(u, jwtID, outcome) ==
    LET hdr == New(0, expiration, u, UserEmail(u), jwtID)
    IN  /\ HandlerFunc(hdr, now).nextCalls > 0
        /\ Serve(hdr, "logout", outcome)
        /\ UNCHANGED gate

\* ------------------------------------------------------ maintenance sweep
Sweep ==
    /\ refresh_tokens' = DeleteExpired(refresh_tokens, now)
    /\ refresh_tokens' # refresh_tokens
    /\ UNCHANGED <<userVars, task, now, expiration, nextID, issued, mintedFor, proc, gate, revoked>>

\* ---------------------------------------------------------- specification
\* The refresh-token protocol: logins, refresh requests, logouts, the sweep.
Next ==
    \/ Tick
    \/ \E u \in Users : Callback(u)
    \/ \E p \in Procs, path \in PathValues, o \in ReadOutcomes : RefreshToken(p, path, o)
    \/ \E p \in Procs, o \in ReadOutcomes : ValidateGetUser(p, o)
    \/ \E p \in Procs, o \in WriteOutcomes, j \in JwtIDs : ValidateInactivate(p, o, j)
    \/ \E p \in Procs, o \in WriteOutcomes : RefreshCreate(p, o)
    \/ \E p \in Procs : RefreshDone(p)
    \/ \E u \in Users, j \in JwtIDs, o \in WriteOutcomes : Logout(u, j, o)
    \/ Sweep

Spec == Init /\ [][Next]_vars

\* The codec and the middleware: Service.New on every user id and email and
\* under every access lifetime, and requests on the protected routes.
ServiceNew(userID, email, jwtID) ==
    /\ jwtID \notin DOMAIN mintedFor
    /\ issued' = issued \cup {New(now, expiration, userID, email, jwtID)}
    /\ mintedFor' = Minted(jwtID, userID, email, now)
    /\ UNCHANGED <<userVars, task, now, expiration, refresh_tokens, nextID, proc, gate, revoked>>

GateInit ==
    /\ now = 0
    /\ expiration \in 0..MaxLifetime
    /\ refresh_tokens = [i \in {} |-> ZeroRow]
    /\ nextID = 0
    /\ issued = {}
    /\ mintedFor = [j \in {} |-> NoMint]
    /\ proc = [p \in Procs |-> IdleProc]
    /\ gate = NoGate
    /\ revoked = {}
    /\ RestInit

GateNext ==
    \/ Tick
    \/ \E u \in Users, e \in Emails, j \in JwtIDs : ServiceNew(u, e, j)
    \/ \E hdr \in Headers, route \in Routes, o \in WriteOutcomes : Request(hdr, route, o)

GateSpec == GateInit /\ [][GateNext]_vars

\* The sessions of the running service: logins (auth.Handler.Callback mints
\* the access token with New and creates the refresh token), requests on
\* the protected routes, the sweep.
SessionNext ==
    \/ Tick
    \/ \E u \in Users : Callback(u)
    \/ \E u \in Users, j \in JwtIDs : ServiceNew(u, UserEmail(u), j)
    \/ \E hdr \in Headers, route \in Routes, o \in WriteOutcomes : Request(hdr, route, o)
    \/ Sweep

SessionSpec == Init /\ [][SessionNext]_vars

\* ----------------------------------------------- user.Service.FindOrCreate
\* Caller c has returned user (0 for User{}) and err; a user returned is
\* kept in the history.
Returned(c, user, err) ==
    /\ foc' = [foc EXCEPT ![c] = [foc[c] EXCEPT !.pc = "done", !.user = user, !.err = err]]
    /\ found' = IF err = "nil"
                THEN found \cup {[email |-> foc[c].email, user |-> user]}
                ELSE found

\* FindOrCreate(email) up to the answer of ExistsByEmail.
FindOrCreate(c, email, outcome) ==
    /\ foc[c].pc = "idle"
    /\ \A d \in Callers : d < c => foc[d].pc # "idle"
    /\ IF outcome = "failed"
       THEN /\ foc' = [foc EXCEPT ![c] = [pc |-> "done", email |-> email, user |-> 0,
                                         err |-> "ErrStore"]]
       ELSE /\ foc' = [foc EXCEPT ![c] =
                        [pc |-> IF ExistsByEmail(users, email) THEN "GetByEmail" ELSE "Create",
                         email |-> email, user |-> 0, err |-> ""]]
    /\ UNCHANGED <<authVars, users, emailUnique, found, task>>

\* The branch !exists: queries.Create. Under a unique constraint on email the
\* insert of an email another call has inserted meanwhile fails on it.
FindOrCreateCreate(c, outcome) ==
    /\ foc[c].pc = "Create"
    /\ Len(users) < MaxUsers
    /\ IF emailUnique /\ ExistsByEmail(users, foc[c].email)
       THEN /\ outcome = "failed"
            /\ users' = users
            /\ Returned(c, 0, "ErrUnique")
       ELSE IF outcome = "failed"
       THEN /\ users' = users
            /\ Returned(c, 0, "ErrStore")
       ELSE /\ users' = CreateUser(users, foc[c].email)
            /\ IF outcome = "lost"
               THEN Returned(c, 0, "ErrStore")
               ELSE Returned(c, Len(users'), "nil")
    /\ UNCHANGED <<authVars, emailUnique, task>>

\* The branch exists: queries.GetByEmail, whose :one takes row i of those
\* the statement matches.
FindOrCreateGetByEmail(c, outcome, i) ==
    /\ foc[c].pc = "GetByEmail"
    /\ IF outcome = "failed"
       THEN /\ i = 0
            /\ Returned(c, 0, "ErrStore")
       ELSE IF GetByEmail(users, foc[c].email) = {}
       THEN /\ i = 0
            /\ Returned(c, 0, "ErrNoRows")
       ELSE /\ i \in GetByEmail(users, foc[c].email)
            /\ Returned(c, i, "nil")
    /\ UNCHANGED <<authVars, users, emailUnique, task>>

\* The caller goes on with what FindOrCreate returned.
FindOrCreateDone(c) ==
    /\ foc[c].pc = "done"
    /\ foc' = [foc EXCEPT ![c] = NoCall]
    /\ UNCHANGED <<authVars, users, emailUnique, found, task>>

\* The users table has no schema in the repository: both are started from.
UserInit ==
    /\ now = 0
    /\ expiration = AccessLifetime
    /\ refresh_tokens = [i \in {} |-> ZeroRow]
    /\ nextID = 0
    /\ issued = {}
    /\ mintedFor = [j \in {} |-> NoMint]
    /\ proc = [p \in Procs |-> IdleProc]
    /\ gate = NoGate
    /\ revoked = {}
    /\ users = << >>
    /\ emailUnique \in BOOLEAN
    /\ foc = [c \in Callers |-> NoCall]
    /\ found = {}
    /\ task = NoTask

UserNext ==
    \/ \E c \in Callers, e \in LoginEmails, o \in ReadOutcomes : FindOrCreate(c, e, o)
    \/ \E c \in Callers, o \in WriteOutcomes : FindOrCreateCreate(c, o)
    \/ \E c \in Callers, o \in ReadOutcomes, i \in 0..MaxUsers : FindOrCreateGetByEmail(c, o, i)
    \/ \E c \in Callers : FindOrCreateDone(c)

UserSpec == UserInit /\ [][UserNext]_vars

\* ------------------------------------------------- /api/task/{id} handlers
\* The handlers themselves (Update and Delete are reached through the
\* middleware, once it has accepted the request). The answer of a handler
\* that makes its store call with the id it took from the path and answers
\* ok when the store does.
TaskAnswer(handler, path, outcome, ok, failure) ==
    LET t == TaskID(path)
    IN  IF t.status # 0
        THEN [handler |-> handler, path |-> path, status |-> t.status, body |-> t.body,
              storeCalls |-> 0, storeID |-> 0]
        ELSE [handler |-> handler, path |-> path,
              status |-> IF outcome = "nil" THEN ok ELSE 500,
              body |-> IF outcome = "nil" THEN "" ELSE failure,
              storeCalls |-> 1, storeID |-> t.id]

\* task.Handler.GetByID
TaskGetByID(path, outcome) ==
    /\ task' = TaskAnswer("GetByID", path, outcome, 200, "Failed to get task")
    /\ UNCHANGED <<authVars, userVars>>

\* task.Handler.Update: between the id and the store call it parses the body.
TaskUpdate(path, bodyOK, outcome) ==
    /\ task' =
        IF TaskID(path).status = 0 /\ ~bodyOK
        THEN [handler |-> "Update", path |-> path, status |-> 400,
              body |-> "Invalid request body", storeCalls |-> 0, storeID |-> 0]
        ELSE TaskAnswer("Update", path, outcome, 200, "Failed to update task")
    /\ UNCHANGED <<authVars, userVars>>

\* task.Handler.Delete
TaskDelete(path, outcome) ==
    /\ task' = TaskAnswer("Delete", path, outcome, 204, "Failed to delete task")
    /\ UNCHANGED <<authVars, userVars>>

TaskNext ==
    \/ \E path \in TaskPaths, o \in ReadOutcomes : TaskGetByID(path, o)
    \/ \E path \in TaskPaths, b \in BOOLEAN, o \in ReadOutcomes : TaskUpdate(path, b, o)
    \/ \E path \in TaskPaths, o \in ReadOutcomes : TaskDelete(path, o)

TaskSpec == Init /\ [][TaskNext]_vars

\* ------------------------------------------------------------ properties
\* A call of ValidateRefreshToken by goroutine p starts in this step (it
\* runs up to the answer of GetByID and the checks that follow).
Starts(p) == proc[p].pc = "idle" /\ proc'[p].pc # "idle" /\ UUIDParse(proc'[p].path)

\* The call of ValidateRefreshToken by goroutine p has returned the identity.
Redeemed(p) == proc[p].verr = "nil"

\* C1: single-use redemption. Once a call of ValidateRefreshToken on an id
\* has returned the identity, every call on that id that starts later, and
\* that the store answers, fails with ErrInvalidRefreshToken.
C1_LaterCallsFail ==
    [][\A p, q \in Procs :
        (p # q /\ Redeemed(q) /\ Starts(p) /\ proc'[p].path = proc[q].path
            /\ proc'[p].verr # "ErrStore")
        => proc'[p].verr = "ErrInvalidRefreshToken"]_vars

\* C2: concurrent redemption race. Of two calls of ValidateRefreshToken on the
\* same id, at most one returns the identity.
C2_OneSuccess ==
    \A p, q \in Procs :
        (p # q /\ UUIDParse(proc[p].path) /\ proc[p].path = proc[q].path /\ Redeemed(p))
        => ~Redeemed(q)

\* C3: expired redemption. A call of ValidateRefreshToken on a row whose
\* expiration is earlier than the clock, answered by the store, fails with
\* ErrInvalidRefreshToken, whether or not the row is still available.
C3_ExpiredRedemption ==
    [][\A p \in Procs :
        (Starts(p) /\ proc'[p].path.id \in DOMAIN refresh_tokens
            /\ refresh_tokens[proc'[p].path.id].expiration_date < now
            /\ proc'[p].verr # "ErrStore")
        => (proc'[p].pc = "done" /\ proc'[p].verr = "ErrInvalidRefreshToken")]_vars

\* A redemption failed with ErrInvalidRefreshToken on a row that is expired
\* and still available (so it was available, and expired, when the call ran:
\* no step makes a row available, and a call on an available unexpired row
\* passes both checks).
C3_Witness ==
    \E p \in Procs :
        /\ proc[p].pc = "done"
        /\ proc[p].verr = "ErrInvalidRefreshToken"
        /\ proc[p].path.id \in DOMAIN refresh_tokens
        /\ refresh_tokens[proc[p].path.id].is_available
        /\ refresh_tokens[proc[p].path.id].expiration_date < now

\* C4: bulk invalidation. After InactivateRefreshTokenByUserID(u) has
\* completed, every call of ValidateRefreshToken that starts on a token u
\* owned at that moment, and that the store answers, fails with
\* ErrInvalidRefreshToken.
C4_RevokedFail ==
    [][\A p \in Procs :
        (Starts(p) /\ proc'[p].path.id \in revoked /\ proc'[p].verr # "ErrStore")
        => proc'[p].verr = "ErrInvalidRefreshToken"]_vars

\* C5: gate rejection. A request whose Authorization header is empty, or
\* whose token Parse rejects for whatever reason, is answered 401 with the
\* body "Unauthorized", and the wrapped handler is not called.
C5_GateRejection ==
    (gate.route # ""
        /\ (gate.Authorization = EmptyString
              \/ Parse(gate.Authorization, gate.at).err # "nil"))
    => (gate.status = 401 /\ gate.body = "Unauthorized" /\ gate.nextCalls = 0)

\* A token the service minted was presented after it expired, and rejected.
C5_Witness ==
    /\ gate.Authorization \in issued
    /\ gate.perr = "ErrTokenExpired"
    /\ gate.status = 401

\* C6: gate acceptance. For a request whose token Parse accepts, the wrapped
\* handler is called exactly once, and the value stored under UserContextKey
\* is the user id the token was minted with.
C6_GateAcceptance ==
    (gate.route # "" /\ gate.Authorization # EmptyString
        /\ Parse(gate.Authorization, gate.at).err = "nil")
    => LET tok == TrimPrefix(gate.Authorization)
       IN  /\ gate.nextCalls = 1
           /\ tok = Foreign \/ tok \in issued
           /\ tok = Foreign => gate.user = "u2"
           /\ tok \in issued => gate.user = mintedFor[tok.claims.ID].ID

\* A token the service minted was presented with the "Bearer " prefix and
\* let through.
C6_Witness ==
    /\ gate.nextCalls = 1
    /\ gate.Authorization \in {WithBearer(tok) : tok \in issued}

\* C7: rotation end to end. A refresh request that answered 200 returned a
\* refresh token id other than the one presented, and a later refresh
\* request with the id it presented, answered by the store, returns 400.
C7_ReplayRejected ==
    [][\A p, q \in Procs :
        (p # q /\ proc[q].status = 200 /\ Starts(p) /\ proc'[p].path = proc[q].path
            /\ proc'[p].verr # "ErrStore")
        => (proc[q].newRefreshToken # proc[q].path.id /\ proc'[p].status = 400)]_vars

\* C8: refresh endpoint status mapping. An answered refresh request has
\* status 400 exactly when ValidateRefreshToken failed with
\* ErrInvalidRefreshToken or the path value is no uuid, status 500 when a
\* store call failed, and status 200 only when ValidateRefreshToken, New and
\* CreateRefreshToken all succeeded.
C8_StatusMapping ==
    \A p \in Procs :
        proc[p].pc = "done" =>
            /\ proc[p].status \in {200, 400, 500}
            /\ proc[p].status = 400
                <=> (proc[p].verr = "ErrInvalidRefreshToken" \/ ~UUIDParse(proc[p].path))
            /\ (proc[p].verr \in {"ErrStore", "ErrNoRows"} \/ proc[p].cerr = "ErrStore")
                => proc[p].status = 500
            /\ proc[p].status = 200
                => /\ proc[p].verr = "nil"
                   /\ proc[p].cerr = "nil"
                   /\ proc[p].jwtToken # EmptyString
                   /\ proc[p].newRefreshToken \in Ids

\* A refresh request was answered 400 for a token that had been used.
C8_Witness ==
    \E p \in Procs :
        /\ proc[p].pc = "done"
        /\ proc[p].status = 400
        /\ proc[p].verr = "ErrInvalidRefreshToken"
        /\ proc[p].path.id \in DOMAIN refresh_tokens
        /\ ~refresh_tokens[proc[p].path.id].is_available

\* C9: missing refresh token. A call of ValidateRefreshToken on a uuid that
\* no row has, answered by the store, fails with ErrInvalidRefreshToken, and
\* the refresh request is answered 400.
C9_MissingRow ==
    [][\A p \in Procs :
        (Starts(p) /\ proc'[p].path.id \notin DOMAIN refresh_tokens
            /\ proc'[p].verr # "ErrStore")
        => (proc'[p].verr = "ErrInvalidRefreshToken" /\ proc'[p].status = 400)]_vars

\* C10 as stated: round trip. A token New(userID, email) returned, presented
\* with or without one "Bearer " prefix at a clock before mint time plus
\* lifetime, is accepted by Parse, which returns userID and email.
C10_RoundTripBeforeLifetime ==
    \A tok \in issued :
        LET m == mintedFor[tok.claims.ID]
        IN  (gate.route # "" /\ gate.Authorization \in {tok, WithBearer(tok)}
                /\ gate.at < m.at + expiration)
            => (gate.perr = "nil" /\ gate.jwtUser = [ID |-> m.ID, Email |-> m.Email])

\* C10 amended: the round trip holds at a clock before mint time plus
\* lifetime truncated to whole seconds, for an email that is valid UTF-8.
C10_RoundTrip ==
    \A tok \in issued :
        LET m == mintedFor[tok.claims.ID]
        IN  (gate.route # "" /\ gate.Authorization \in {tok, WithBearer(tok)}
                /\ gate.at < NewNumericDate(m.at + expiration)
                /\ JSONString(m.Email) = m.Email)
            => (gate.perr = "nil" /\ gate.jwtUser = [ID |-> m.ID, Email |-> m.Email])

\* A token minted off a second boundary came back through Parse, prefixed,
\* with the user id and email it was minted with.
C10_Witness ==
    \E tok \in issued :
        LET m == mintedFor[tok.claims.ID]
        IN  /\ gate.Authorization = WithBearer(tok)
            /\ m.at % TicksPerSecond # 0
            /\ gate.perr = "nil"
            /\ gate.jwtUser = [ID |-> m.ID, Email |-> m.Email]

\* The token string of the last request, as Parse hands it to the parser,
\* and whether it is a JWT signed with the secret.
Presented == TrimPrefix(gate.Authorization)

WellSigned(s) == s.kind = "jwt" /\ s.bearer = 0 /\ s.mac = HMAC(secret, s.claims)

\* C11: access-token expiry boundary. Parse of a minted token at a clock equal
\* to or later than its exp claim fails with ErrTokenExpired, and Parse one
\* tick before the exp claim does not fail for expiry.
C11_ExpiryBoundary ==
    \A tok \in issued :
        (gate.route # "" /\ gate.Authorization \in {tok, WithBearer(tok)})
        => /\ gate.at >= tok.claims.ExpiresAt => gate.perr = "ErrTokenExpired"
           /\ gate.at = tok.claims.ExpiresAt - 1 => gate.perr # "ErrTokenExpired"

\* A minted token was presented at the very instant of its exp claim, after
\* its mint, and refused as expired.
C11_Witness ==
    \E tok \in issued :
        /\ gate.Authorization = tok
        /\ gate.at = tok.claims.ExpiresAt
        /\ gate.at > mintedFor[tok.claims.ID].at
        /\ gate.perr = "ErrTokenExpired"

RequestStep ==
    /\ now' = now
    /\ nextID' = nextID
    /\ issued' = issued
    /\ DOMAIN refresh_tokens' = DOMAIN refresh_tokens

\* The refresh_tokens rows of user u in table tbl.
RowsOf(tbl, u) == {i \in DOMAIN tbl : tbl[i].user_id = u}

\* C13: logout. A logout request with a user id in its context answers 204
\* only once InactivateRefreshTokenByUserID has made every refresh token of
\* that user unavailable (and changed none of another user), answers 500
\* when that call failed, and a logout request that comes with no user id
\* is answered 401 with every refresh token left as it was.
C13_Logout ==
    [][(RequestStep /\ gate'.route = "logout")
        => /\ (gate'.user # "nil" /\ gate'.lerr = "nil")
                => /\ gate'.status = 204
                   /\ \A i \in DOMAIN refresh_tokens :
                        refresh_tokens'[i] =
                            IF i \in RowsOf(refresh_tokens, gate'.user)
                            THEN [refresh_tokens[i] EXCEPT !.is_available = FALSE]
                            ELSE refresh_tokens[i]
           /\ (gate'.user # "nil" /\ gate'.lerr # "nil") => gate'.status = 500
           /\ gate'.user = "nil"
                => (gate'.status = 401 /\ refresh_tokens' = refresh_tokens)]_vars

\* A logout was answered 204 and it made a refresh token unavailable.
C13_Witness ==
    /\ gate.route = "logout"
    /\ gate.status = 204
    /\ gate.touched # {}
    /\ \A i \in gate.touched :
        i \in DOMAIN refresh_tokens => ~refresh_tokens[i].is_available

\* C14: InactivateRefreshTokenByUserID is idempotent. Called for a user who
\* has no available refresh token it returns nil (when the store answers)
\* and leaves every row as it was.
C14_Idempotent ==
    [][(RequestStep /\ gate'.route = "logout" /\ gate'.user # "nil"
            /\ \A i \in RowsOf(refresh_tokens, gate'.user) : ~refresh_tokens[i].is_available)
        => /\ refresh_tokens' = refresh_tokens
           /\ gate'.lerr = "nil" => gate'.status = 204]_vars

\* A logout was answered 204 for a user whose refresh token had been made
\* unavailable before, and changed no row.
C14_Witness ==
    /\ gate.route = "logout"
    /\ gate.status = 204
    /\ gate.touched = {}
    /\ \E i \in RowsOf(refresh_tokens, gate.user) : ~refresh_tokens[i].is_available

\* C15: inactivation is terminal. In every step a row that stays in the table
\* is unchanged or goes from available to unavailable with nothing else
\* changed, and an id that has left the table does not come back.
C15_Terminal ==
    [][/\ \A i \in DOMAIN refresh_tokens \cap DOMAIN refresh_tokens' :
            \/ refresh_tokens'[i] = refresh_tokens[i]
            \/ /\ refresh_tokens[i].is_available
               /\ refresh_tokens'[i] = [refresh_tokens[i] EXCEPT !.is_available = FALSE]
       /\ \A i \in (1..nextID) \ DOMAIN refresh_tokens : i \notin DOMAIN refresh_tokens'
      ]_vars

\* A redemption ran on a row that was unavailable and not expired, was
\* refused, and the row is still unavailable.
C15_Witness ==
    \E p \in Procs :
        /\ proc[p].pc = "done"
        /\ proc[p].verr = "ErrInvalidRefreshToken"
        /\ proc[p].path.id \in DOMAIN refresh_tokens
        /\ ~refresh_tokens[proc[p].path.id].is_available
        /\ ~(refresh_tokens[proc[p].path.id].expiration_date < now)
        /\ proc[p].path.id \in revoked

\* C16: the mark-inactive step is a conditional update. Inactivate reports
\* success to ValidateRefreshToken only if the row was still available at the
\* moment of the write.
C16_ConditionalUpdate ==
    [][\A p \in Procs :
        (proc[p].pc = "Inactivate" /\ proc'[p].verr = "nil")
        => refresh_tokens[proc[p].path.id].is_available]_vars

\* C17: ValidateRefreshToken returns the identity only after the write of
\* Inactivate: at the return the row is in the table and unavailable, and
\* as long as the call's result stands the row, if it is still in the table,
\* is unavailable.
C17_IdentityAfterInactivation ==
    /\ [](\A p \in Procs :
            (Redeemed(p) /\ proc[p].path.id \in DOMAIN refresh_tokens)
            => ~refresh_tokens[proc[p].path.id].is_available)
    /\ [][\A p \in Procs :
            (proc[p].pc = "Inactivate" /\ proc'[p].verr = "nil")
            => /\ proc'[p].jwtToken.claims.UserID = proc[p].jwtUser.ID
               /\ proc[p].path.id \in DOMAIN refresh_tokens'
               /\ ~refresh_tokens'[proc[p].path.id].is_available]_vars

\* ValidateRefreshToken has returned the identity of the owner, and the row
\* it redeemed is unavailable.
C17_Witness ==
    \E p \in Procs :
        /\ proc[p].pc = "CreateRefreshToken"
        /\ Redeemed(p)
        /\ proc[p].path.id \in DOMAIN refresh_tokens
        /\ proc[p].jwtUser.ID = refresh_tokens[proc[p].path.id].user_id
        /\ ~refresh_tokens[proc[p].path.id].is_available

\* C18: refresh-token expiry boundary. A call of ValidateRefreshToken on a
\* row whose expiration is less than or equal to the clock, answered by the
\* store, fails with ErrInvalidRefreshToken.
C18_ExpiryBoundary ==
    [][\A p \in Procs :
        (Starts(p) /\ proc'[p].path.id \in DOMAIN refresh_tokens
            /\ refresh_tokens[proc'[p].path.id].expiration_date <= now
            /\ proc'[p].verr # "ErrStore")
        => proc'[p].verr = "ErrInvalidRefreshToken"]_vars

\* C19: the authentication gate is stateless. The middleware calls the
\* wrapped handler exactly when the header is not empty and Parse accepts
\* the token at the clock of the request, whatever refresh_tokens holds, and
\* a request changes no refresh_tokens row unless it is a logout that the
\* middleware let through.
C19_GateStateless ==
    gate.route # ""
    => /\ gate.nextCalls =
            IF gate.Authorization # EmptyString
                /\ Parse(gate.Authorization, gate.at).err = "nil"
            THEN 1 ELSE 0
       /\ (gate.nextCalls = 0 \/ gate.route # "logout") => gate.touched = {}

\* After a logout of the user, whose every refresh token is unavailable, a
\* request with the user's access token was let through to a task handler.
C19_Witness ==
    /\ gate.route = "task"
    /\ gate.nextCalls = 1
    /\ RowsOf(refresh_tokens, gate.user) # {}
    /\ \A i \in RowsOf(refresh_tokens, gate.user) :
        i \in revoked /\ ~refresh_tokens[i].is_available

\* C20: maintenance sweep. A step that deletes rows deletes exactly the rows
\* whose expiration is before the clock or that are unavailable, none of
\* which ValidateRefreshToken would accept at that instant; the rows that
\* remain are unchanged, available and not expired.
C20_Sweep ==
    [][(nextID' = nextID /\ DOMAIN refresh_tokens' # DOMAIN refresh_tokens)
        => /\ DOMAIN refresh_tokens' \subseteq DOMAIN refresh_tokens
           /\ \A i \in DOMAIN refresh_tokens :
                i \notin DOMAIN refresh_tokens'
                <=> (refresh_tokens[i].expiration_date < now
                        \/ ~refresh_tokens[i].is_available)
           /\ \A i \in DOMAIN refresh_tokens \ DOMAIN refresh_tokens' :
                CheckRefreshToken(GetByID(refresh_tokens, i), now) # "nil"
           /\ \A i \in DOMAIN refresh_tokens' :
                /\ refresh_tokens'[i] = refresh_tokens[i]
                /\ refresh_tokens'[i].is_available
                /\ ~(refresh_tokens'[i].expiration_date < now)]_vars

\* The sweep has removed the second row and kept the first, which is
\* available and at the very instant of its expiration.
C20_Witness ==
    /\ nextID = 2
    /\ DOMAIN refresh_tokens = {1}
    /\ refresh_tokens[1].is_available
    /\ refresh_tokens[1].expiration_date = now

\* Goroutine p's call of CreateRefreshToken returns in this step.
CreateReturns(p) == proc[p].pc = "CreateRefreshToken" /\ proc'[p].pc = "done"

\* Table tbl2 is table tbl with one row added: id i, not an id of tbl, owned by
\* u, available, expiring RefreshLifetime after the clock.
OneRowAdded(tbl, tbl2, i, u) ==
    /\ i \notin DOMAIN tbl
    /\ DOMAIN tbl2 = DOMAIN tbl \cup {i}
    /\ tbl2[i] = [user_id |-> u, is_available |-> TRUE,
                  expiration_date |-> now + RefreshLifetime]
    /\ \A j \in DOMAIN tbl : tbl2[j] = tbl[j]

\* C21 as stated: CreateRefreshToken. On success it adds exactly one row with
\* a fresh id, the owner, expiration now + refreshLifetime and availability
\* true, and returns it; when it returns an error the table is as it was.
C21_CreateOrNothing ==
    [][\A p \in Procs :
        CreateReturns(p)
        => IF proc'[p].cerr = "nil"
           THEN OneRowAdded(refresh_tokens, refresh_tokens',
                            proc'[p].newRefreshToken, proc[p].jwtUser.ID)
           ELSE refresh_tokens' = refresh_tokens]_vars

\* C21 amended: as above, but when CreateRefreshToken returns an error the
\* table is as it was, or the insert was applied and only its answer was
\* lost, and then the table holds that one new row; no existing row is changed
\* in any case.
C21_CreateRefreshToken ==
    [][\A p \in Procs :
        CreateReturns(p)
        => IF proc'[p].cerr = "nil"
           THEN OneRowAdded(refresh_tokens, refresh_tokens',
                            proc'[p].newRefreshToken, proc[p].jwtUser.ID)
           ELSE /\ proc'[p].newRefreshToken = 0
                /\ \/ refresh_tokens' = refresh_tokens
                   \/ OneRowAdded(refresh_tokens, refresh_tokens', nextID',
                                  proc[p].jwtUser.ID)]_vars

\* CreateRefreshToken has returned a row on top of a row that was there
\* before: the new one is in the table, available, owned by the user of the
\* token redeemed, and the old one is as the redemption left it.
C21_Witness ==
    \E p \in Procs :
        /\ proc[p].pc = "done"
        /\ proc[p].cerr = "nil"
        /\ proc[p].newRefreshToken \in DOMAIN refresh_tokens
        /\ proc[p].path.id \in DOMAIN refresh_tokens
        /\ refresh_tokens[proc[p].newRefreshToken] =
            [user_id |-> refresh_tokens[proc[p].path.id].user_id, is_available |-> TRUE,
             expiration_date |-> now + RefreshLifetime]

\* Goroutine p's call of ValidateRefreshToken returns an error in this step.
ValidateFails(p) ==
    /\ proc[p].verr = ""
    /\ proc'[p].verr \notin {"", "nil"}
    /\ UUIDParse(proc'[p].path)

\* Goroutine p's call of ValidateRefreshToken takes a step and goes on.
ValidateGoesOn(p) ==
    /\ proc'[p].pc \in {"GetUserByRefreshToken", "Inactivate"}
    /\ proc'[p].pc # proc[p].pc

\* C22 as stated: a failed redemption changes nothing. Whenever
\* ValidateRefreshToken returns an error, every row is as it was.
C22_FailureChangesNothing ==
    [][\A p \in Procs : ValidateFails(p) => refresh_tokens' = refresh_tokens]_vars

\* C22 amended: the steps of ValidateRefreshToken before its last store call
\* change no row, and when it returns an error every row is as it was, except
\* that the row presented has become unavailable when the error is that of
\* Inactivate whose write was applied and whose answer was lost.
C22_FailedRedemption ==
    [][\A p \in Procs :
        /\ ValidateGoesOn(p) => refresh_tokens' = refresh_tokens
        /\ ValidateFails(p)
            => \/ refresh_tokens' = refresh_tokens
               \/ /\ proc[p].pc = "Inactivate"
                  /\ proc'[p].verr = "ErrStore"
                  /\ proc[p].path.id \in DOMAIN refresh_tokens
                  /\ refresh_tokens' =
                        [refresh_tokens EXCEPT ![proc[p].path.id].is_available = FALSE]
      ]_vars

\* ValidateRefreshToken has failed on a store error with two rows in the
\* table, both available and neither expired.
C22_Witness ==
    \E p \in Procs :
        /\ proc[p].pc = "done"
        /\ proc[p].verr = "ErrStore"
        /\ proc[p].path.id \in DOMAIN refresh_tokens
        /\ \E i \in DOMAIN refresh_tokens : i # proc[p].path.id
        /\ \A i \in DOMAIN refresh_tokens :
            refresh_tokens[i].is_available /\ ~(refresh_tokens[i].expiration_date < now)

\* C23: rotation is all-or-nothing. When a refresh request whose token passed
\* the checks of ValidateRefreshToken is answered with a status other than
\* 200 because CreateRefreshToken failed without adding a row, the token
\* presented is still available.
C23_AllOrNothing ==
    [][\A p \in Procs :
        (CreateReturns(p) /\ proc'[p].status # 200 /\ refresh_tokens' = refresh_tokens)
        => /\ proc[p].path.id \in DOMAIN refresh_tokens'
           /\ refresh_tokens'[proc[p].path.id].is_available]_vars

\* C24: logout versus in-flight refresh. When a logout of the owner completed
\* while a refresh request for one of the owner's tokens was in progress (the
\* token presented was among those the logout revoked, the one returned was
\* not), the refresh token the request returned is not available.
C24_LogoutWins ==
    \A p \in Procs :
        (proc[p].pc = "done" /\ proc[p].status = 200
            /\ proc[p].path.id \in revoked /\ proc[p].newRefreshToken \notin revoked)
        => ~(proc[p].newRefreshToken \in DOMAIN refresh_tokens
                /\ refresh_tokens[proc[p].newRefreshToken].is_available)

\* C25: FindOrCreate keeps one user per email. The users table holds at most
\* one row per email, the calls that returned a user for an email all returned
\* the same one, and a call the store answered returned the user and no error.
C25_OneUserPerEmail ==
    /\ \A i, j \in DOMAIN users : users[i].email = users[j].email => i = j
    /\ \A f, g \in found : f.email = g.email => f.user = g.user
    /\ \A c \in Callers :
        (foc[c].pc = "done" /\ foc[c].err # "ErrStore")
        => /\ foc[c].err = "nil"
           /\ foc[c].user \in GetByEmail(users, foc[c].email)

\* C26: task id handling. After a request on GetByID, Update or Delete, the id
\* handed to the store was the integer in the path, and a path id that is
\* not an integer or does not fit in int32 was answered 400 without a store
\* call.
C26_TaskID ==
    task.handler # ""
    => IF task.path.kind = "int" /\ task.path.n >= MinInt32 /\ task.path.n <= MaxInt32
       THEN task.storeCalls = 1 => task.storeID = task.path.n
       ELSE task.status = 400 /\ task.storeCalls = 0

====
